---- MODULE Spec2Model ----
(***************************************************************************)
(* WealthWarden: the client's local transaction ledger (localStorage), the *)
(* optimistic mirror of an add to the server, the server's in-memory store *)
(* and the dashboard's aggregation functions.                              *)
(*                                                                         *)
(* A browsing context (a tab with the dashboard and its transaction form   *)
(* mounted) runs its handlers to completion, but localStorage is shared by *)
(* every context of the origin, so the getItem and the setItem of one      *)
(* ledger operation are separate steps between which another context may   *)
(* act.                                                                    *)
(***************************************************************************)
EXTENDS Integers, Sequences, FiniteSets, TLC

\* ------------------------------------------------------------------ bounds
MaxClock == 2          \* Date.now() takes the values 1..MaxClock
MaxAdds == 2           \* submissions of the transaction form, over all contexts
MaxTx == 3             \* transactions following the seed of a rendered collection
MaxLedger == 2         \* transactions of the ledger a dashboard is mounted on
MaxPosts == 2          \* transactions created through the API
MaxRegisters == 2      \* register requests sent to the API

Contexts == {"tab1", "tab2"}
Users == {1, 2}

VARIABLES
    store,                  \* localStorage: key -> blob
    clock,                  \* Date.now()
    pc,                     \* per context: where its add mutation stands
    rm,                     \* per context: a remove stands between its load and its save
    frame,                  \* per context: the locals of the ledger call in progress
    net,                    \* per context: the mirror request / its response in flight
    srvTx,                  \* MemStorage.transactions, in insertion order
    currentTransactionId,   \* MemStorage.currentTransactionId
    lastResult,             \* per context: the last toast ("success", "error", "deleted")
    warned,                 \* the console.warn("Failed to sync ...") calls
    requests,               \* create requests issued to the server so far
    adds,                   \* form submissions so far
    user,                   \* per context: the user its components captured when mounted
    missed,                 \* history: per context, the writes of others since its load
    origins,                \* history: for each entry of srvTx, the add that sent it
    collection,             \* the transactions handed to the summary and the charts
    rendered,               \* what the summary and the charts computed from them
    dashboardTransactions,  \* per context: Dashboard's transactions state
    filteredTransactions,   \* per context: Dashboard's filteredTransactions state
    filters,                \* per context: Dashboard's filters state
    srvUsers,               \* MemStorage.users, in insertion order
    currentUserId,          \* MemStorage.currentUserId
    reg,                    \* per register request: where its handler stands
    reply,                  \* the response the server sent last
    session,                \* localStorage: what the key financeApp_currentUser holds
    given,                  \* history: the user last set and not cleared since, or null
    location,               \* per context: the path the router shows
    assigned                \* history: the ids createTransaction assigned, in order

vars == <<store, clock, pc, rm, frame, net, srvTx, currentTransactionId,
          lastResult, warned, requests, adds, user, missed, origins,
          collection, rendered, dashboardTransactions, filteredTransactions, filters,
          srvUsers, currentUserId, reg, reply, session, given, location, assigned>>

\* ------------------------------------------------------------- JS values
\* A Date object and the ISO string JSON.stringify turns it into.
DateOf(ms) == [tag |-> "Date", ms |-> ms]
IsoStringOf(ms) == [tag |-> "string", ms |-> ms]

\* Number.prototype.toString: the decimal string of a number (its value in cents).
NumberToString(n) == [tag |-> "string", dec |-> n]

\* A string whose characters matter (a date) is the sequence of its UTF-16 code
\* units; "" is the empty sequence.  The decimal digits of n, zero-padded:
DigitString(n, width) == [i \in 1..width |-> 48 + ((n \div (10 ^ (width - i))) % 10)]

\* The value of an <input type="date">: YYYY-MM-DD.
IsoDate(year, month, day) ==
    DigitString(year, 4) \o <<45>> \o DigitString(month, 2) \o <<45>> \o DigitString(day, 2)

\* a < b on strings: by code units, a proper prefix first.
StringLess(a, b) ==
    \E i \in 1..(Len(b)) :
        /\ \A j \in 1..(i - 1) : j <= Len(a) /\ a[j] = b[j]
        /\ (i > Len(a) \/ (i <= Len(a) /\ a[i] < b[i]))

\* What the transaction form submits once insertTransactionSchema accepted it.
FormInputs ==
    { [type |-> "expense", amount |-> 20000, description |-> "lunch",
       category |-> "Food", date |-> IsoDate(2024, 1, 20)] }

NoData == [type |-> "", amount |-> 0, description |-> "", category |-> "", date |-> <<>>]

\* JSON.stringify of one transaction object: a Date becomes its ISO string.
JsonOfTransaction(t) ==
    [t EXCEPT !.createdAt = IF @.tag = "Date" THEN IsoStringOf(@.ms) ELSE @]

\* JSON.stringify(transactions): the text of an array.
JsonStringify(transactions) ==
    [kind |-> "array",
     items |-> [i \in DOMAIN transactions |-> JsonOfTransaction(transactions[i])]]

\* The blobs a key can hold: nothing, "", text JSON.parse rejects, and the text of
\* a JSON value (an array of objects, null, an object).
AbsentBlob == [kind |-> "absent", items |-> <<>>]
CorruptBlobs == { [kind |-> k, items |-> <<>>] : k \in {"empty", "garbage", "null", "object"} }

\* JSON.parse(data) for a text it accepts: the value the text denotes.
JsonParse(data) == [tag |-> data.kind, items |-> data.items]

EmptyArray == [tag |-> "array", items |-> <<>>]

\* ------------------------------------------------------- the ledger store
TxKeyShared(userId) == <<"financeApp_transactions_", 0>>

TxKey(userId) == <<"financeApp_transactions_", userId>>

Keys == { TxKey(u) : u \in Users }

\* A save that keeps what the key holds and the caller's copy lacks.
saveTransactionsMerging(st, userId, transactions) ==
    LET new == JsonStringify(transactions).items
        old == st[TxKey(userId)].items
        kept == SelectSeq(old, LAMBDA t : \A i \in DOMAIN new : new[i] /= t)
    IN [st EXCEPT ![TxKey(userId)] = [kind |-> "array", items |-> new \o kept]]

saveTransactionsToLocal(st, userId, transactions) ==
    [st EXCEPT ![TxKey(userId)] = JsonStringify(transactions)]

getTransactionsFromLocal(st, userId) ==
    LET data == st[TxKey(userId)] IN
    IF data.kind \in {"absent", "empty"} THEN EmptyArray      \* data is falsy
    ELSE IF data.kind = "garbage" THEN EmptyArray             \* JSON.parse throws: catch
    ELSE JsonParse(data)

\* transactions.unshift / transactions.filter exist on arrays only.
IsArray(v) == v.tag = "array"

Unshift(transactions, transaction) == <<transaction>> \o transactions

FilterKeepsId(transactions, transactionId) ==
    SelectSeq(transactions, LAMBDA t : t.id = transactionId)

FilterOutId(transactions, transactionId) ==
    SelectSeq(transactions, LAMBDA t : t.id /= transactionId)

\* addTransactionToLocal run without interruption (the caller checks IsArray).
addTransactionToLocal(st, userId, transaction) ==
    saveTransactionsToLocal(st, userId,
        Unshift(getTransactionsFromLocal(st, userId).items, transaction))

\* removeTransactionFromLocal run without interruption.
removeTransactionFromLocal(st, userId, transactionId) ==
    saveTransactionsToLocal(st, userId,
        FilterOutId(getTransactionsFromLocal(st, userId).items, transactionId))

\* ------------------------------------------------------ the add mutation
LocalTransaction(userId, data, now) ==
    [id |-> now, userId |-> userId, type |-> data.type,
     amount |-> NumberToString(data.amount), description |-> data.description,
     category |-> data.category, date |-> data.date, createdAt |-> DateOf(now)]

NoMessage == [st |-> "none", status |-> 0, body |-> NoData, userId |-> 0, add |-> 0]

EmptyFrame == [transactions |-> <<>>, data |-> NoData, id |-> 0]

\* useMutation's isPending: from mutate() until mutationFn's promise settles.
isPending(c) == pc[c] /= "idle"

\* The submit button is disabled while the mutation is pending.
SubmitEnabled(c) == ~isPending(c)

\* apiRequest's promise rejects on a network error (the request or its response is
\* lost) and on a reply that is not 2xx.
apiRequestRejects(msg) ==
    \/ msg.st = "req"
    \/ msg.st = "resp"

apiRequestResolves(msg) == msg.st = "resp" /\ msg.status \in 200..299

MutationOutcomeRethrows(mirrorFailed) == IF mirrorFailed THEN "error" ELSE "success"

\* mutationFn's try/catch around the mirror call: the catch logs and falls through
\* to `return localTransaction`, so the mutation succeeds either way.
MutationOutcome(mirrorFailed) == "success"

AfterMirrorFailureResends(msg) == [msg EXCEPT !.st = "req", !.status = 0]

\* What is in flight for the context after the catch: nothing (no retry, no queue).
AfterMirrorFailure(msg) == NoMessage

\* A step that also empties the server's store.
MirrorEmptied ==
    /\ srvTx' = <<>>
    /\ origins' = <<>>
    /\ UNCHANGED <<net, currentTransactionId, warned, requests, assigned>>

UnchangedMirror ==
    UNCHANGED <<net, srvTx, currentTransactionId, warned, requests, origins, assigned>>

UnchangedRace == UNCHANGED <<rm, frame, missed>>

UnchangedCharts == UNCHANGED <<collection, rendered>>

UnchangedDashboard == UNCHANGED <<dashboardTransactions, filteredTransactions, filters>>

UnchangedApi == UNCHANGED <<srvUsers, currentUserId, reg, reply>>

UnchangedSession == UNCHANGED <<session, given, location>>

Tick ==
    /\ UnchangedDashboard
    /\ UnchangedCharts
    /\ UnchangedSession
    /\ UnchangedApi
    /\ clock < MaxClock
    /\ clock' = clock + 1
    /\ UNCHANGED <<store, pc, lastResult, adds, user>>
    /\ UnchangedMirror
    /\ UnchangedRace

\* The request apiRequest("POST", "/api/transactions", {...data, userId}) puts in flight.
CreateRequest(data, userId, n) ==
    [st |-> "req", status |-> 0, body |-> data, userId |-> userId, add |-> n]

\* onSubmit -> mutate -> mutationFn, run to its await: the transaction is built,
\* addTransactionToLocal writes it, apiRequest issues the create request.
Submit(c, data) ==
    /\ UnchangedDashboard
    /\ UnchangedCharts
    /\ UnchangedSession
    /\ UnchangedApi
    /\ SubmitEnabled(c)
    /\ ~rm[c]
    /\ adds < MaxAdds
    /\ adds' = adds + 1
    /\ IF IsArray(getTransactionsFromLocal(store, user[c]))
       THEN /\ store' = addTransactionToLocal(store, user[c],
                                              LocalTransaction(user[c], data, clock))
            /\ net' = [net EXCEPT ![c] = CreateRequest(data, user[c], adds')]
            /\ requests' = requests + 1
            /\ pc' = [pc EXCEPT ![c] = "awaiting"]
            /\ UNCHANGED lastResult
       ELSE \* unshift is not a function: mutationFn rejects, onError
            /\ lastResult' = [lastResult EXCEPT ![c] = "error"]
            /\ UNCHANGED <<store, net, requests, pc>>
    /\ UNCHANGED <<clock, srvTx, currentTransactionId, warned, user, origins, assigned>>
    /\ UnchangedRace

\* The await returns: mutationFn returns localTransaction, onSuccess.
SettleOk(c) ==
    /\ UnchangedDashboard
    /\ UnchangedCharts
    /\ UnchangedSession
    /\ UnchangedApi
    /\ pc[c] = "awaiting"
    /\ ~rm[c]
    /\ apiRequestResolves(net[c])
    /\ lastResult' = [lastResult EXCEPT ![c] = MutationOutcome(FALSE)]
    /\ net' = [net EXCEPT ![c] = NoMessage]
    /\ pc' = [pc EXCEPT ![c] = "idle"]
    /\ missed' = [missed EXCEPT ![c] = {}]
    /\ UNCHANGED <<store, clock, rm, frame, srvTx, currentTransactionId, warned, requests,
                   adds, user, origins, assigned>>

\* The await throws: catch, console.warn, return localTransaction, onSuccess.
SettleFail(c) ==
    /\ UnchangedDashboard
    /\ UnchangedCharts
    /\ UnchangedSession
    /\ UnchangedApi
    /\ pc[c] = "awaiting"
    /\ ~rm[c]
    /\ apiRequestRejects(net[c])
    /\ warned' = warned \cup {[add |-> net[c].add, ctx |-> c, handled |-> net[c].st = "resp"]}
    /\ lastResult' = [lastResult EXCEPT ![c] = MutationOutcome(TRUE)]
    /\ net' = [net EXCEPT ![c] = AfterMirrorFailure(net[c])]
    /\ pc' = [pc EXCEPT ![c] = IF net'[c].st = "none" THEN "idle" ELSE "awaiting"]
    /\ missed' = [missed EXCEPT ![c] = {}]
    /\ UNCHANGED <<store, clock, rm, frame, srvTx, currentTransactionId, requests,
                   adds, user, origins, assigned>>

\* ------------------------------------------------------------ the dashboard
NoFilters == [type |-> "", category |-> "", fromDate |-> <<>>, toDate |-> <<>>]

\* A filter whose date bounds exclude the bound itself.
applyFiltersExclusive(f, transaction) ==
    /\ f.type /= "" => transaction.type = f.type
    /\ f.category /= "" => transaction.category = f.category
    /\ f.fromDate /= <<>> => StringLess(f.fromDate, transaction.date)
    /\ f.toDate /= <<>> => StringLess(transaction.date, f.toDate)

\* applyFilters, for the filters state it closes over.
applyFilters(f, transaction) ==
    IF f.type /= "" /\ transaction.type /= f.type THEN FALSE
    ELSE IF f.category /= "" /\ transaction.category /= f.category THEN FALSE
    ELSE IF f.fromDate /= <<>> /\ StringLess(transaction.date, f.fromDate) THEN FALSE
    ELSE IF f.toDate /= <<>> /\ StringLess(f.toDate, transaction.date) THEN FALSE
    ELSE TRUE

\* A filter that also leaves out its first match.
FilterSkippingFirst(ts, f) ==
    LET kept == SelectSeq(ts, LAMBDA t : applyFilters(f, t))
    IN  IF kept = <<>> THEN kept ELSE Tail(kept)

\* transactions.filter(applyFilters)
FilterTransactions(ts, f) == SelectSeq(ts, LAMBDA t : applyFilters(f, t))

\* A cleared view read from the ledger store again.
ClearedViewReloaded(c) == getTransactionsFromLocal(store, user[c]).items

\* setFilteredTransactions(transactions) in handleClearFilters.
ClearedView(c) == dashboardTransactions[c]

\* The dashboard's mount effect: getCurrentUser, getTransactionsFromLocal, both
\* states set to what was loaded (the other states are the initial ones).
Mount(c) ==
    /\ IsArray(getTransactionsFromLocal(store, user[c]))
    /\ dashboardTransactions' =
           [dashboardTransactions EXCEPT ![c] = getTransactionsFromLocal(store, user[c]).items]
    /\ filteredTransactions' = [filteredTransactions EXCEPT ![c] = dashboardTransactions'[c]]
    /\ filters' = [filters EXCEPT ![c] = NoFilters]
    /\ lastResult' = [lastResult EXCEPT ![c] = "none"]
    /\ UNCHANGED <<store, clock, pc, adds, user>>
    /\ UnchangedMirror
    /\ UnchangedRace
    /\ UnchangedCharts
    /\ UnchangedSession
    /\ UnchangedApi

\* The filter inputs' onChange: setFilters(prev => ({...prev, [dimension]: value})).
SetFilter(c, dimension, value) ==
    /\ filters[c][dimension] /= value
    /\ filters' = [filters EXCEPT ![c][dimension] = value]
    /\ UNCHANGED <<store, clock, pc, lastResult, adds, user, dashboardTransactions,
                   filteredTransactions>>
    /\ UnchangedMirror
    /\ UnchangedRace
    /\ UnchangedCharts
    /\ UnchangedSession
    /\ UnchangedApi

handleApplyFilters(c) ==
    /\ filteredTransactions' =
           [filteredTransactions EXCEPT ![c] = FilterTransactions(dashboardTransactions[c], filters[c])]
    /\ lastResult' = [lastResult EXCEPT ![c] = "Filters Applied"]
    /\ UNCHANGED <<store, clock, pc, adds, user, dashboardTransactions, filters>>
    /\ UnchangedMirror
    /\ UnchangedRace
    /\ UnchangedCharts
    /\ UnchangedSession
    /\ UnchangedApi

handleClearFilters(c) ==
    /\ filters' = [filters EXCEPT ![c] = NoFilters]
    /\ filteredTransactions' = [filteredTransactions EXCEPT ![c] = ClearedView(c)]
    /\ lastResult' = [lastResult EXCEPT ![c] = "Filters Cleared"]
    /\ UNCHANGED <<store, clock, pc, adds, user, dashboardTransactions>>
    /\ UnchangedMirror
    /\ UnchangedRace
    /\ UnchangedCharts
    /\ UnchangedSession
    /\ UnchangedApi

\* A delete that updates the full collection only.
DeletedFromFullOnly(c, transactionId) ==
    /\ dashboardTransactions' =
           [dashboardTransactions EXCEPT ![c] = FilterOutId(@, transactionId)]
    /\ UNCHANGED <<filteredTransactions, filters>>

\* handleDeleteTransaction's state updates, after removeTransactionFromLocal.
DeletedFromView(c, transactionId) ==
    /\ dashboardTransactions' =
           [dashboardTransactions EXCEPT ![c] = FilterOutId(@, transactionId)]
    /\ filteredTransactions' =
           [filteredTransactions EXCEPT ![c] = FilterTransactions(dashboardTransactions'[c], filters[c])]
    /\ UNCHANGED filters

\* ------------------------------------------------------------ the remove
TransactionIds == 1..MaxClock

\* handleDeleteTransaction: removeTransactionFromLocal, the state updates, then
\* the toast.
Remove(c, transactionId) ==
    /\ UnchangedCharts
    /\ UnchangedSession
    /\ UnchangedApi
    /\ ~rm[c]
    /\ pc[c] \in {"idle", "awaiting"}
    /\ IF IsArray(getTransactionsFromLocal(store, user[c]))
       THEN /\ store' = removeTransactionFromLocal(store, user[c], transactionId)
            /\ DeletedFromView(c, transactionId)
            /\ lastResult' = [lastResult EXCEPT ![c] = "deleted"]
       ELSE \* filter is not a function: the handler throws
            /\ lastResult' = [lastResult EXCEPT ![c] = "threw"]
            /\ UNCHANGED store
            /\ UnchangedDashboard
    /\ UNCHANGED <<clock, pc, adds, user>>
    /\ UnchangedMirror
    /\ UnchangedRace

\* ------------------------------------------------------------ the server
\* insertTransactionSchema.parse(req.body)
insertTransactionSchemaAnyAmount(body) ==
    /\ {"type", "amount", "description", "category", "date"} \subseteq DOMAIN body
    /\ body.type \in {"income", "expense"}
    /\ body.date /= <<>>

insertTransactionSchema(body) ==
    /\ {"type", "amount", "description", "category", "date"} \subseteq DOMAIN body
    /\ body.amount > 0
    /\ body.type \in {"income", "expense"}
    /\ body.date /= <<>>

\* A store that numbers a transaction by the size of its map.
createTransactionNumberedBySize(transactions, id, body, userId, now) ==
    Append(transactions,
           [id |-> Len(transactions) + 1, userId |-> userId, type |-> body.type,
            amount |-> NumberToString(body.amount), description |-> body.description,
            category |-> body.category, date |-> body.date, createdAt |-> DateOf(now)])

\* MemStorage.createTransaction
createTransaction(transactions, id, body, userId, now) ==
    Append(transactions,
           [id |-> id, userId |-> userId, type |-> body.type,
            amount |-> NumberToString(body.amount), description |-> body.description,
            category |-> body.category, date |-> body.date, createdAt |-> DateOf(now)])

\* app.post("/api/transactions")
ServerPost(c) ==
    /\ UnchangedDashboard
    /\ UnchangedCharts
    /\ UnchangedSession
    /\ UnchangedApi
    /\ net[c].st = "req"
    /\ IF insertTransactionSchema(net[c].body) /\ net[c].userId /= 0
       THEN /\ srvTx' = createTransaction(srvTx, currentTransactionId, net[c].body,
                                          net[c].userId, clock)
            /\ currentTransactionId' = currentTransactionId + 1
            /\ origins' = Append(origins, net[c].add)
            /\ assigned' = Append(assigned, srvTx'[Len(srvTx')].id)
            /\ net' = [net EXCEPT ![c] = [@ EXCEPT !.st = "resp", !.status = 200]]
       ELSE /\ net' = [net EXCEPT ![c] = [@ EXCEPT !.st = "resp", !.status = 400]]
            /\ UNCHANGED <<srvTx, currentTransactionId, origins, assigned>>
    /\ UNCHANGED <<store, clock, pc, lastResult, warned, requests, adds, user>>
    /\ UnchangedRace

\* ------------------------------------------------------- requests to the API
\* JSON values of a request, as far as the handlers look at them.
Undefined == [tag |-> "undefined"]
NaN == [tag |-> "NaN"]
Number(n) == [tag |-> "number", n |-> n]

\* parseInt(v): the number of a number (or of its decimal text), NaN of an absent value.
parseInt(v) == IF v.tag = "number" THEN v ELSE NaN

\* !v of a parseInt result
Not(v) == v.tag /= "number" \/ v.n = 0

Registers == 1..MaxRegisters

NoRegister == [st |-> "none", body |-> Undefined, existingUser |-> Undefined, status |-> 0]

NoReply == [op |-> "none", status |-> 0]

\* insertUserSchema.parse(req.body)
insertUserSchema(body) == {"name", "email", "password"} \subseteq DOMAIN body

\* Buffer.from(password).toString('base64')
Base64(password) == <<"base64", password>>

\* MemStorage.getUserByEmail
getUserByEmail(users, email) ==
    LET found == SelectSeq(users, LAMBDA u : u.email = email)
    IN  IF found = <<>> THEN Undefined ELSE Head(found)

\* MemStorage.createUser
createUser(users, id, insertUser, now) ==
    Append(users, [id |-> id, name |-> insertUser.name, email |-> insertUser.email,
                   password |-> insertUser.password, createdAt |-> DateOf(now)])

\* app.post("/api/register") up to its first await: the body parsed, the lookup made.
RegisterRequest(r, body) ==
    /\ UnchangedDashboard
    /\ UnchangedCharts
    /\ UnchangedSession
    /\ reg[r].st = "none"
    /\ IF insertUserSchema(body)
       THEN reg' = [reg EXCEPT ![r] = [st |-> "awaitExisting", body |-> body,
                        existingUser |-> getUserByEmail(srvUsers, body.email),
                        status |-> 0]]
       ELSE reg' = [reg EXCEPT ![r] = [st |-> "done", body |-> body,
                        existingUser |-> Undefined, status |-> 400]]
    /\ reply' = IF insertUserSchema(body) THEN reply
                ELSE [op |-> "register", status |-> 400]
    /\ UNCHANGED <<store, clock, pc, lastResult, adds, user, srvUsers, currentUserId>>
    /\ UnchangedMirror
    /\ UnchangedRace

\* The handler resumed with the lookup's result: the 400, or createUser and the
\* response that follows it.
RegisterResume(r) ==
    /\ UnchangedDashboard
    /\ UnchangedCharts
    /\ UnchangedSession
    /\ reg[r].st = "awaitExisting"
    /\ IF reg[r].existingUser /= Undefined
       THEN /\ reg' = [reg EXCEPT ![r] = [@ EXCEPT !.st = "done", !.status = 400]]
            /\ reply' = [op |-> "register", status |-> 400]
            /\ UNCHANGED <<srvUsers, currentUserId>>
       ELSE /\ srvUsers' = createUser(srvUsers, currentUserId,
                                      [reg[r].body EXCEPT !.password = Base64(@)], clock)
            /\ currentUserId' = currentUserId + 1
            /\ reg' = [reg EXCEPT ![r] = [@ EXCEPT !.st = "done", !.status = 200]]
            /\ reply' = [op |-> "register", status |-> 200]
    /\ UNCHANGED <<store, clock, pc, lastResult, adds, user>>
    /\ UnchangedMirror
    /\ UnchangedRace

\* .sort((a, b) => new Date(b.createdAt).getTime() - new Date(a.createdAt).getTime()),
\* a stable sort: each transaction goes before the first one created at an earlier time.
InsertNewestFirst(sorted, t) ==
    LET earlier == { i \in DOMAIN sorted : sorted[i].createdAt.ms < t.createdAt.ms }
        at == IF earlier = {} THEN Len(sorted) + 1
              ELSE CHOOSE i \in earlier : \A j \in earlier : i <= j
    IN  SubSeq(sorted, 1, at - 1) \o <<t>> \o SubSeq(sorted, at, Len(sorted))

RECURSIVE SortNewestFirst(_, _)
SortNewestFirst(sorted, transactions) ==
    IF transactions = <<>> THEN sorted
    ELSE SortNewestFirst(InsertNewestFirst(sorted, Head(transactions)), Tail(transactions))

\* MemStorage.getTransactionsByUserId
getTransactionsByUserId(transactions, userId) ==
    SortNewestFirst(<<>>,
        SelectSeq(transactions, LAMBDA t : userId.tag = "number" /\ t.userId = userId.n))

\* A delete that does not look at the owner.
deleteTransactionOfAnyOwner(transactions, id, userId) ==
    { i \in DOMAIN transactions : id.tag = "number" /\ transactions[i].id = id.n }

\* MemStorage.deleteTransaction: the positions it deletes, none when it returns false.
deleteTransaction(transactions, id, userId) ==
    { i \in DOMAIN transactions :
        /\ id.tag = "number" /\ transactions[i].id = id.n
        /\ userId.tag = "number" /\ transactions[i].userId = userId.n }

\* The sequence without the positions deleted.
Deleted(seq, positions) ==
    LET kept == { i \in DOMAIN seq : i \notin positions }
        RECURSIVE Collect(_)
        Collect(i) == IF i > Len(seq) THEN <<>>
                      ELSE (IF i \in kept THEN <<seq[i]>> ELSE <<>>) \o Collect(i + 1)
    IN  Collect(1)

\* The bodies and parameters sent to the transaction routes.
ApiBodies ==
    { [type |-> "expense", amount |-> 20000, description |-> "lunch",
       category |-> "Food", date |-> IsoDate(2024, 1, 20)],
      [type |-> "expense", amount |-> 0, description |-> "lunch",
       category |-> "Food", date |-> IsoDate(2024, 1, 20)],
      [type |-> "expense", amount |-> -500, description |-> "lunch",
       category |-> "Food", date |-> IsoDate(2024, 1, 20)],
      [type |-> "transfer", amount |-> 20000, description |-> "lunch",
       category |-> "Food", date |-> IsoDate(2024, 1, 20)],
      [type |-> "expense", amount |-> 20000, category |-> "Food",
       date |-> IsoDate(2024, 1, 20)],
      [type |-> "expense", description |-> "lunch", category |-> "Food",
       date |-> IsoDate(2024, 1, 20)] }

ApiUserIds == {Undefined} \cup { Number(n) : n \in {0} \cup Users }

ApiIds == {Undefined} \cup { Number(n) : n \in 0..MaxPosts }

RegisterBodies ==
    { [name |-> "Ann", email |-> "ann@example.com", password |-> "one"],
      [name |-> "Nan", email |-> "ann@example.com", password |-> "two"],
      [name |-> "Cyd", password |-> "ten"] }

\* app.get("/api/transactions/:userId")
ApiGet(userIdParam) ==
    /\ UnchangedDashboard
    /\ UnchangedCharts
    /\ UnchangedSession
    /\ reply' = [op |-> "get", status |-> 200,
                 body |-> JsonStringify(
                     getTransactionsByUserId(srvTx, parseInt(userIdParam))).items]
    /\ UNCHANGED <<store, clock, pc, lastResult, adds, user, srvUsers, currentUserId, reg>>
    /\ UnchangedMirror
    /\ UnchangedRace

\* app.post("/api/transactions"), sent to the API directly
ApiPost(body, userIdField) ==
    /\ UnchangedDashboard
    /\ UnchangedCharts
    /\ UnchangedSession
    /\ currentTransactionId <= MaxPosts
    /\ LET userId == parseInt(userIdField)
       IN  IF insertTransactionSchema(body) /\ ~Not(userId)
           THEN /\ srvTx' = createTransaction(srvTx, currentTransactionId, body,
                                              userId.n, clock)
                /\ currentTransactionId' = currentTransactionId + 1
                /\ origins' = Append(origins, 0)
                /\ assigned' = Append(assigned, srvTx'[Len(srvTx')].id)
                /\ reply' = [op |-> "post", status |-> 200, id |-> currentTransactionId]
           ELSE /\ reply' = [op |-> "post", status |-> 400]
                /\ UNCHANGED <<srvTx, currentTransactionId, origins, assigned>>
    /\ UNCHANGED <<store, clock, pc, rm, frame, net, lastResult, warned, requests, adds,
                   user, missed, srvUsers, currentUserId, reg>>

\* app.delete("/api/transactions/:id")
ApiDelete(idParam, userIdField) ==
    /\ UnchangedDashboard
    /\ UnchangedCharts
    /\ UnchangedSession
    /\ LET id == parseInt(idParam)
           userId == parseInt(userIdField)
           positions == deleteTransaction(srvTx, id, userId)
       IN  IF Not(userId)
           THEN /\ reply' = [op |-> "delete", status |-> 400, id |-> id, userId |-> userId]
                /\ UNCHANGED <<srvTx, origins, assigned>>
           ELSE IF positions /= {}
           THEN /\ srvTx' = Deleted(srvTx, positions)
                /\ origins' = Deleted(origins, positions)
                /\ UNCHANGED assigned
                /\ reply' = [op |-> "delete", status |-> 200, id |-> id, userId |-> userId]
           ELSE /\ reply' = [op |-> "delete", status |-> 404, id |-> id, userId |-> userId]
                /\ UNCHANGED <<srvTx, origins, assigned>>
    /\ UNCHANGED <<store, clock, pc, rm, frame, net, currentTransactionId, lastResult,
                   warned, requests, adds, user, missed, srvUsers, currentUserId, reg>>

\* ------------------------------------------------------- the session holder
Null == [tag |-> "null"]

\* What the key financeApp_currentUser holds: nothing, or the text of an object.
AbsentSession == [kind |-> "absent", value |-> Null]

\* JSON.stringify of a user object: a Date becomes its ISO string.
JsonOfUser(u) ==
    [u EXCEPT !.createdAt = IF @.tag = "Date" THEN IsoStringOf(@.ms) ELSE @]

\* const { password, ...userWithoutPassword } = user
WithoutPassword(u) == [field \in DOMAIN u \ {"password"} |-> u[field]]

\* res.json(userWithoutPassword), read by the client: the body of a 200 of
\* /api/login and /api/register.
ResponseUser(u) == JsonOfUser(WithoutPassword(u))

\* A reader that makes a Date of createdAt again.
getCurrentUserRevived(blob) ==
    IF blob.kind = "absent" THEN Null
    ELSE [blob.value EXCEPT !.createdAt = DateOf(@.ms)]

\* getCurrentUser: null when the key holds nothing, else JSON.parse of its text.
getCurrentUser(blob) ==
    IF blob.kind = "absent" THEN Null ELSE blob.value

\* setCurrentUser: localStorage.setItem(AUTH_KEY, JSON.stringify(user))
setCurrentUser(u) == [kind |-> "object", value |-> JsonOfUser(u)]

\* clearCurrentUser: localStorage.removeItem(AUTH_KEY)
clearCurrentUser == AbsentSession

isAuthenticated(blob) == getCurrentUser(blob) /= Null

\* The users MemStorage holds.
StoredUsers == { srvUsers[i] : i \in DOMAIN srvUsers }

Paths == {"/", "/auth", "/dashboard"}

\* Router: the path shown once the redirects of "/" and of ProtectedRoute are done.
Routed(path, authenticated) ==
    IF path = "/auth" THEN "/auth"
    ELSE IF authenticated THEN "/dashboard" ELSE "/auth"

\* The address bar or a link takes the context to a path; the router renders.
Navigate(c, path) ==
    /\ location' = [location EXCEPT ![c] = Routed(path, isAuthenticated(session))]
    /\ location'[c] /= location[c]
    /\ UNCHANGED <<session, given>>
    /\ UNCHANGED <<store, clock, pc, lastResult, adds, user>>
    /\ UnchangedMirror
    /\ UnchangedRace
    /\ UnchangedCharts
    /\ UnchangedDashboard
    /\ UnchangedApi

\* The auth page, on the 200 of a login or a registration: setCurrentUser(user).
SignIn(c, u) ==
    /\ location[c] = "/auth"
    /\ session' = setCurrentUser(ResponseUser(u))
    /\ given' = ResponseUser(u)
    /\ UNCHANGED location
    /\ UNCHANGED <<store, clock, pc, lastResult, adds, user>>
    /\ UnchangedMirror
    /\ UnchangedRace
    /\ UnchangedCharts
    /\ UnchangedDashboard
    /\ UnchangedApi

\* Navigation's handleLogout: clearCurrentUser(), setLocation("/auth").
handleLogout(c) ==
    /\ location[c] = "/dashboard"
    /\ session' = clearCurrentUser
    /\ given' = Null
    /\ location' = [location EXCEPT ![c] = "/auth"]
    /\ UNCHANGED <<store, clock, pc, lastResult, adds, user>>
    /\ UnchangedMirror
    /\ UnchangedRace
    /\ UnchangedCharts
    /\ UnchangedDashboard
    /\ UnchangedApi

\* ------------------------------------- ledger calls of two contexts, interleaved
\* The other contexts that hold a copy of the collection of c's user, loaded and
\* not yet saved.
Stale(c) ==
    { d \in Contexts \ {c} : user[d] = user[c] /\ (pc[d] = "addLoaded" \/ rm[d]) }

Missed(c, write) ==
    [d \in Contexts |-> IF d \in Stale(c) THEN missed[d] \cup {write} ELSE missed[d]]

\* mutationFn up to addTransactionToLocal's getTransactionsFromLocal and unshift.
AddLoad(c, data) ==
    /\ UnchangedDashboard
    /\ UnchangedCharts
    /\ UnchangedSession
    /\ UnchangedApi
    /\ SubmitEnabled(c)
    /\ ~rm[c]
    /\ adds < MaxAdds
    /\ IsArray(getTransactionsFromLocal(store, user[c]))
    /\ adds' = adds + 1
    /\ frame' = [frame EXCEPT ![c] =
                   [transactions |-> Unshift(getTransactionsFromLocal(store, user[c]).items,
                                             LocalTransaction(user[c], data, clock)),
                    data |-> data, id |-> clock]]
    /\ pc' = [pc EXCEPT ![c] = "addLoaded"]
    /\ missed' = [missed EXCEPT ![c] = {}]
    /\ UNCHANGED <<store, clock, rm, lastResult, user>>
    /\ UnchangedMirror

\* addTransactionToLocal's saveTransactionsToLocal, then apiRequest.
AddSave(c) ==
    /\ UnchangedDashboard
    /\ UnchangedCharts
    /\ UnchangedSession
    /\ UnchangedApi
    /\ pc[c] = "addLoaded"
    /\ store' = saveTransactionsToLocal(store, user[c], frame[c].transactions)
    /\ net' = [net EXCEPT ![c] = CreateRequest(frame[c].data, user[c], adds)]
    /\ requests' = requests + 1
    /\ pc' = [pc EXCEPT ![c] = "awaiting"]
    /\ frame' = [frame EXCEPT ![c] = EmptyFrame]
    /\ missed' = Missed(c, [kind |-> "add", id |-> frame[c].id,
                            tx |-> JsonOfTransaction(frame[c].transactions[1])])
    /\ UNCHANGED <<clock, rm, srvTx, currentTransactionId, lastResult, warned, adds,
                   user, origins, assigned>>

\* removeTransactionFromLocal up to its getTransactionsFromLocal and filter.
RemoveLoad(c, transactionId) ==
    /\ UnchangedDashboard
    /\ UnchangedCharts
    /\ UnchangedSession
    /\ UnchangedApi
    /\ ~rm[c]
    /\ pc[c] \in {"idle", "awaiting"}
    /\ IsArray(getTransactionsFromLocal(store, user[c]))
    /\ frame' = [frame EXCEPT ![c] =
                   [transactions |-> FilterOutId(getTransactionsFromLocal(store, user[c]).items,
                                                 transactionId),
                    data |-> NoData, id |-> transactionId]]
    /\ rm' = [rm EXCEPT ![c] = TRUE]
    /\ missed' = [missed EXCEPT ![c] = {}]
    /\ UNCHANGED <<store, clock, pc, lastResult, adds, user>>
    /\ UnchangedMirror

\* removeTransactionFromLocal's saveTransactionsToLocal, then the handler's toast.
RemoveSave(c) ==
    /\ UnchangedCharts
    /\ UnchangedSession
    /\ UnchangedApi
    /\ rm[c]
    /\ DeletedFromView(c, frame[c].id)
    /\ store' = saveTransactionsToLocal(store, user[c], frame[c].transactions)
    /\ rm' = [rm EXCEPT ![c] = FALSE]
    /\ frame' = [frame EXCEPT ![c] = EmptyFrame]
    /\ lastResult' = [lastResult EXCEPT ![c] = "deleted"]
    /\ missed' = Missed(c, [kind |-> "remove", id |-> frame[c].id,
                            tx |-> JsonOfTransaction(LocalTransaction(0, NoData, 0))])
    /\ UNCHANGED <<clock, pc, adds, user>>
    /\ UnchangedMirror

\* ------------------------------------------ localStorage edited from outside
\* The user, an extension or another script of the origin overwrites a ledger key.
Tamper(userId, blob) ==
    /\ UnchangedDashboard
    /\ UnchangedCharts
    /\ UnchangedSession
    /\ UnchangedApi
    /\ store[TxKey(userId)] /= blob
    /\ store' = [store EXCEPT ![TxKey(userId)] = blob]
    /\ UNCHANGED <<clock, pc, lastResult, adds, user>>
    /\ UnchangedMirror
    /\ UnchangedRace

\* ------------------------------------------------- IEEE 754 binary64 numbers
\* A JS number is modelled exactly, in fixed point: sign and magnitude, the
\* magnitude a natural number of units of 2^-GridBits written in limbs of
\* LimbBits binary digits, least significant limb first, no leading zero limb.
\* Every double the amounts in range produce is on this grid: the smallest
\* amount, 0.01, has its last binary place at 2^-59, and sums and differences
\* of grid values are grid values.  A value is a double when its magnitude
\* has at most Precision significant binary digits.
Precision == 53
LimbBits == 15
GridLimbs == 4
Base == 2 ^ LimbBits
GridBits == GridLimbs * LimbBits

ZeroLimbs(k) == [i \in 1..k |-> 0]

PlusZero == [sign |-> 0, mag |-> <<>>]

\* Drop the most significant zero limbs.
TrimLimbs(l) ==
    LET nz == { i \in DOMAIN l : l[i] /= 0 }
    IN  IF nz = {} THEN <<>>
        ELSE SubSeq(l, 1, CHOOSE i \in nz : \A j \in nz : j <= i)

LimbAt(l, i) == IF i <= Len(l) THEN l[i] ELSE 0

\* a + b + carry, limb by limb.
RECURSIVE AddLimbs(_, _, _)
AddLimbs(a, b, carry) ==
    IF a = <<>> /\ b = <<>> THEN (IF carry = 0 THEN <<>> ELSE <<carry>>)
    ELSE LET s == LimbAt(a, 1) + LimbAt(b, 1) + carry
         IN  <<s % Base>> \o AddLimbs(IF a = <<>> THEN <<>> ELSE Tail(a),
                                      IF b = <<>> THEN <<>> ELSE Tail(b), s \div Base)

\* a - b - borrow for a >= b + borrow, limb by limb.
RECURSIVE SubLimbs(_, _, _)
SubLimbs(a, b, borrow) ==
    IF a = <<>> THEN <<>>
    ELSE LET d == LimbAt(a, 1) - LimbAt(b, 1) - borrow
         IN  <<d % Base>> \o SubLimbs(Tail(a), IF b = <<>> THEN <<>> ELSE Tail(b),
                                      IF d < 0 THEN 1 ELSE 0)

\* a < b for magnitudes.
LessLimbs(a, b) ==
    \/ Len(a) < Len(b)
    \/ /\ Len(a) = Len(b)
       /\ \E i \in 1..Len(a) :
            /\ a[i] < b[i]
            /\ \A j \in (i + 1)..Len(a) : a[j] = b[j]

\* The number of significant binary digits of a magnitude.
BitLength(l) ==
    IF l = <<>> THEN 0
    ELSE LimbBits * (Len(l) - 1)
         + (CHOOSE k \in 1..LimbBits : 2 ^ (k - 1) <= l[Len(l)] /\ l[Len(l)] < 2 ^ k)

\* 2^k as a magnitude.
PowerOfTwo(k) == ZeroLimbs(k \div LimbBits) \o <<2 ^ (k % LimbBits)>>

\* The magnitude modulo 2^k: its k least significant binary digits.
LowBits(l, k) ==
    LET q == k \div LimbBits
        s == k % LimbBits
    IN  IF q >= Len(l) THEN l
        ELSE TrimLimbs(SubSeq(l, 1, q) \o <<l[q + 1] % (2 ^ s)>>)

\* The binary digit of weight 2^i.
BitAt(l, i) == (LimbAt(l, i \div LimbBits + 1) \div (2 ^ (i % LimbBits))) % 2

\* Round a magnitude to Precision significant digits, to nearest, ties to
\* even; inexact tells that the true value lies a little above the magnitude.
RoundToDouble(l, inexact) ==
    LET k == BitLength(l) - Precision
        low == LowBits(l, k)
        half == PowerOfTwo(k - 1)
        down == TrimLimbs(SubLimbs(l, low, 0))
        roundUp == \/ LessLimbs(half, low)
                   \/ low = half /\ (inexact \/ BitAt(l, k) = 1)
    IN  IF k <= 0 THEN l
        ELSE IF roundUp THEN AddLimbs(down, PowerOfTwo(k), 0)
        ELSE down

Negate(x) == IF x.mag = <<>> THEN x ELSE [x EXCEPT !.sign = 1 - @]

\* The exact sum of two values, not rounded.
ExactAdd(x, y) ==
    IF x.sign = y.sign THEN [sign |-> x.sign, mag |-> AddLimbs(x.mag, y.mag, 0)]
    ELSE IF x.mag = y.mag THEN PlusZero
    ELSE IF LessLimbs(x.mag, y.mag)
    THEN [sign |-> y.sign, mag |-> TrimLimbs(SubLimbs(y.mag, x.mag, 0))]
    ELSE [sign |-> x.sign, mag |-> TrimLimbs(SubLimbs(x.mag, y.mag, 0))]

\* The JS operators + and - on numbers.
NumberAdd(x, y) ==
    LET s == ExactAdd(x, y) IN [sign |-> s.sign, mag |-> RoundToDouble(s.mag, FALSE)]

NumberSub(x, y) == NumberAdd(x, Negate(y))

\* The sign of x - y: what a sort comparator returning x - y tells the sort.
NumberLess(x, y) == LET d == ExactAdd(x, Negate(y)) IN d.mag /= <<>> /\ d.sign = 1

\* The limbs of a natural number below 2^31.
LimbsOfNat(n) == TrimLimbs(<<n % Base, (n \div Base) % Base, n \div (Base * Base)>>)

\* Long division of a magnitude by 100, most significant limb first.
RECURSIVE DivideBy100(_, _, _)
DivideBy100(l, r, acc) ==
    IF l = <<>> THEN [quotient |-> TrimLimbs(acc), inexact |-> r /= 0]
    ELSE LET v == r * Base + l[Len(l)]
         IN  DivideBy100(SubSeq(l, 1, Len(l) - 1), v % 100, <<v \div 100>> \o acc)

\* parseFloat of the decimal string of cents/100: the double nearest to it.
\* The division is carried one limb below the grid; the rounding clears it.
DoubleOfCents(cents) ==
    LET mag == IF cents < 0 THEN -cents ELSE cents
        d == DivideBy100(ZeroLimbs(GridLimbs + 1) \o LimbsOfNat(mag), 0, <<>>)
        r == RoundToDouble(d.quotient, d.inexact)
    IN  IF cents = 0 THEN PlusZero
        ELSE [sign |-> IF cents < 0 THEN 1 ELSE 0, mag |-> Tail(r)]

\* ------------------------------------------------ dashboard aggregation
\* parseFloat(t.amount): the double nearest to the amount's decimal string.
parseFloat(s) == DoubleOfCents(s.dec)

IsIncome(t) == t.type = "income"

IsExpense(t) == t.type = "expense"

\* .reduce((sum, t) => sum + parseFloat(t.amount), 0)
RECURSIVE ReduceSum(_, _)
ReduceSum(sum, ts) ==
    IF ts = <<>> THEN sum
    ELSE ReduceSum(NumberAdd(sum, parseFloat(Head(ts).amount)), Tail(ts))

\* Dashboard's financialSummary memo.
financialSummary(ts) ==
    LET income == ReduceSum(PlusZero, SelectSeq(ts, IsIncome))
        expenses == ReduceSum(PlusZero, SelectSeq(ts, IsExpense))
    IN  [income |-> income, expenses |-> expenses, balance |-> NumberSub(income, expenses)]

\* IncomeExpenseChart's data memo.
IncomeExpenseChart(ts) ==
    << [name |-> "Income", value |-> ReduceSum(PlusZero, SelectSeq(ts, IsIncome))],
       [name |-> "Expenses", value |-> ReduceSum(PlusZero, SelectSeq(ts, IsExpense))] >>

\* acc[t.category] = (acc[t.category] || 0) + parseFloat(t.amount), the object
\* kept as its entries in insertion order, which is how Object.entries lists them.
RECURSIVE ByCategory(_, _)
ByCategory(acc, ts) ==
    IF ts = <<>> THEN acc
    ELSE LET t == Head(ts)
             hit == { i \in DOMAIN acc : acc[i].category = t.category }
         IN  ByCategory(
                 IF hit = {}
                 THEN Append(acc, [category |-> t.category,
                                   amount |-> NumberAdd(PlusZero, parseFloat(t.amount))])
                 ELSE [i \in DOMAIN acc |->
                         IF i \in hit
                         THEN [acc[i] EXCEPT !.amount = NumberAdd(@, parseFloat(t.amount))]
                         ELSE acc[i]],
                 Tail(ts))

\* ExpenseCategoryChart's data memo: one entry per expense category.
ExpenseCategoryChart(ts) == ByCategory(<<>>, SelectSeq(ts, IsExpense))

\* A sort that puts an entry before the entries of equal amount.
InsertDescendingUnstable(sorted, e) ==
    LET notLarger == { i \in DOMAIN sorted : ~NumberLess(e.amount, sorted[i].amount) }
        at == IF notLarger = {} THEN Len(sorted) + 1
              ELSE CHOOSE i \in notLarger : \A j \in notLarger : i <= j
    IN  SubSeq(sorted, 1, at - 1) \o <<e>> \o SubSeq(sorted, at, Len(sorted))

\* .sort(([,a], [,b]) => b - a), a stable sort: each entry goes before the first
\* one with a smaller amount.
InsertDescending(sorted, e) ==
    LET smaller == { i \in DOMAIN sorted : NumberLess(sorted[i].amount, e.amount) }
        at == IF smaller = {} THEN Len(sorted) + 1
              ELSE CHOOSE i \in smaller : \A j \in smaller : i <= j
    IN  SubSeq(sorted, 1, at - 1) \o <<e>> \o SubSeq(sorted, at, Len(sorted))

RECURSIVE SortDescending(_, _)
SortDescending(sorted, entries) ==
    IF entries = <<>> THEN sorted
    ELSE SortDescending(InsertDescending(sorted, Head(entries)), Tail(entries))

TopK == 5

\* .slice(0, 5)
Slice(s, k) == SubSeq(s, 1, IF Len(s) < k THEN Len(s) ELSE k)

\* The rows of the dashboard's "Top Spending Categories" card.
TopSpendingCategories(ts) ==
    Slice(SortDescending(<<>>, ByCategory(<<>>, SelectSeq(ts, IsExpense))), TopK)

\* t.date.substring(0, 7)
Substring(str, from, to) == SubSeq(str, from + 1, IF Len(str) < to THEN Len(str) ELSE to)

\* MonthlyTrendsChart's forEach: monthlyData kept as its entries.
RECURSIVE ByMonth(_, _)
ByMonth(acc, ts) ==
    IF ts = <<>> THEN acc
    ELSE LET t == Head(ts)
             month == Substring(t.date, 0, 7)
             hit == { i \in DOMAIN acc : acc[i].key = month }
             had == IF hit = {} THEN Append(acc, [key |-> month, income |-> PlusZero,
                                                  expenses |-> PlusZero])
                    ELSE acc
         IN  ByMonth([i \in DOMAIN had |->
                        IF had[i].key /= month THEN had[i]
                        ELSE IF t.type = "income"
                        THEN [had[i] EXCEPT !.income = NumberAdd(@, parseFloat(t.amount))]
                        ELSE [had[i] EXCEPT !.expenses = NumberAdd(@, parseFloat(t.amount))]],
                     Tail(ts))

\* .sort(([a], [b]) => a.localeCompare(b)): on keys made of digits and a hyphen
\* at the same place the collation order is the order of the code units.
InsertByKey(sorted, e) ==
    LET later == { i \in DOMAIN sorted : StringLess(e.key, sorted[i].key) }
        at == IF later = {} THEN Len(sorted) + 1
              ELSE CHOOSE i \in later : \A j \in later : i <= j
    IN  SubSeq(sorted, 1, at - 1) \o <<e>> \o SubSeq(sorted, at, Len(sorted))

RECURSIVE SortByKey(_, _)
SortByKey(sorted, entries) ==
    IF entries = <<>> THEN sorted
    ELSE SortByKey(InsertByKey(sorted, Head(entries)), Tail(entries))

\* The number a string of decimal digits denotes.
RECURSIVE DecimalValue(_)
DecimalValue(str) ==
    IF str = <<>> THEN 0
    ELSE 10 * DecimalValue(SubSeq(str, 1, Len(str) - 1)) + (str[Len(str)] - 48)

\* The year and month a YYYY-MM key names.
YearMonth(key) ==
    [year |-> DecimalValue(Substring(key, 0, 4)), month |-> DecimalValue(Substring(key, 5, 7))]

\* new Date(month + "-01").toLocaleDateString("en-US", {month: "short", year:
\* "numeric"}): the date-only string is midnight UTC of the first of the month,
\* and it is formatted in the local time zone, where it still is the last day of
\* the month before when the zone is behind UTC.
MonthLabel(key, behindUtc) ==
    LET ym == YearMonth(key)
    IN  IF ~behindUtc THEN ym
        ELSE IF ym.month = 1 THEN [year |-> ym.year - 1, month |-> 12]
        ELSE [year |-> ym.year, month |-> ym.month - 1]

\* MonthlyTrendsChart's data memo.
MonthlyTrendsChart(ts, behindUtc) ==
    LET sorted == SortByKey(<<>>, ByMonth(<<>>, ts))
    IN  [i \in DOMAIN sorted |->
            [month |-> MonthLabel(sorted[i].key, behindUtc),
             income |-> sorted[i].income, expenses |-> sorted[i].expenses]]

NotRendered == [done |-> FALSE]

\* One render of the dashboard and its charts over the collection.
Render ==
    /\ UnchangedDashboard
    /\ UnchangedSession
    /\ UnchangedApi
    /\ rendered = NotRendered
    /\ \E behindUtc \in BOOLEAN :
          rendered' = [done |-> TRUE,
                       behindUtc |-> behindUtc,
                       financialSummary |-> financialSummary(collection),
                       incomeExpense |-> IncomeExpenseChart(collection),
                       expenseCategory |-> ExpenseCategoryChart(collection),
                       topSpending |-> TopSpendingCategories(collection),
                       monthlyTrends |-> MonthlyTrendsChart(collection, behindUtc)]
    /\ UNCHANGED <<store, clock, pc, lastResult, adds, user, collection>>
    /\ UnchangedMirror
    /\ UnchangedRace

\* The collections rendered: a ledger holding nothing, or one expense in each of
\* five categories (whole dollars, or cents with ties), followed by up to MaxTx transactions of
\* small amounts in two further expense categories and one income category.
DatedTransaction(type, category, cents, date) ==
    JsonOfTransaction(LocalTransaction(1,
        [type |-> type, amount |-> cents, description |-> "", category |-> category,
         date |-> date], 1))

StoredTransaction(type, category, cents) ==
    DatedTransaction(type, category, cents, IsoDate(2024, 1, 20))

FiveCategories ==
    << StoredTransaction("expense", "Transportation", 500),
       StoredTransaction("expense", "Entertainment", 400),
       StoredTransaction("expense", "Shopping", 300),
       StoredTransaction("expense", "Bills", 200),
       StoredTransaction("expense", "Healthcare", 100) >>

\* Five categories of small expenses, unsorted and with equal totals among them.
TiedCategories ==
    << StoredTransaction("expense", "Transportation", 20),
       StoredTransaction("expense", "Entertainment", 30),
       StoredTransaction("expense", "Shopping", 30),
       StoredTransaction("expense", "Bills", 20),
       StoredTransaction("expense", "Healthcare", 30) >>

SmallAmounts == {10, 20, 30}

FurtherTransactions ==
    { StoredTransaction("income", "Salary", a) : a \in SmallAmounts }
    \cup { StoredTransaction("expense", c, a) : c \in {"Food", "Other Expense"}, a \in SmallAmounts }

Collections ==
    { seed \o tail : seed \in {<<>>, FiveCategories, TiedCategories},
                     tail \in UNION { [1..n -> FurtherTransactions] : n \in 0..MaxTx } }

\* The collections of the monthly trend: up to MaxTx transactions of small
\* amounts dated in three months, in any order.
TrendDates == { IsoDate(2023, 12, 31), IsoDate(2024, 1, 15), IsoDate(2024, 2, 1) }

TrendTransactions ==
    { DatedTransaction("income", "Salary", a, d) : a \in SmallAmounts, d \in TrendDates }
    \cup { DatedTransaction("expense", "Food", a, d) : a \in SmallAmounts, d \in TrendDates }

TrendCollections == UNION { [1..n -> TrendTransactions] : n \in 0..MaxTx }

\* ------------------------------------------------------- specifications
\* Nothing in progress, nothing sent, the server's store empty.
InitIdle ==
    /\ pc = [c \in Contexts |-> "idle"]
    /\ rm = [c \in Contexts |-> FALSE]
    /\ frame = [c \in Contexts |-> EmptyFrame]
    /\ net = [c \in Contexts |-> NoMessage]
    /\ srvTx = <<>>
    /\ currentTransactionId = 1
    /\ lastResult = [c \in Contexts |-> "none"]
    /\ warned = {}
    /\ requests = 0
    /\ adds = 0
    /\ user \in { u \in [Contexts -> Users] : u["tab1"] = 1 }
    /\ missed = [c \in Contexts |-> {}]
    /\ origins = <<>>
    /\ assigned = <<>>
    /\ srvUsers = <<>>
    /\ currentUserId = 1
    /\ reg = [r \in Registers |-> NoRegister]
    /\ reply = NoReply
    /\ session = AbsentSession
    /\ given = Null
    /\ location = [c \in Contexts |-> "/"]

InitLedger ==
    /\ store = [k \in Keys |-> AbsentBlob]
    /\ clock = 1
    /\ InitIdle

\* useState's initial values, before the dashboard is mounted.
InitDashboardState ==
    /\ dashboardTransactions = [c \in Contexts |-> <<>>]
    /\ filteredTransactions = [c \in Contexts |-> <<>>]
    /\ filters = [c \in Contexts |-> NoFilters]

Init ==
    /\ InitLedger
    /\ InitDashboardState
    /\ collection = <<>>
    /\ rendered = NotRendered

\* The same, both contexts of one user.
InitServer ==
    /\ Init
    /\ user["tab2"] = 1

\* Every context runs its handlers to completion; the mirror and the server run
\* beside them.
Next ==
    \/ Tick
    \/ \E c \in Contexts, data \in FormInputs : Submit(c, data)
    \/ \E c \in Contexts : SettleOk(c)
    \/ \E c \in Contexts : SettleFail(c)
    \/ \E c \in Contexts, id \in TransactionIds : Remove(c, id)
    \/ \E c \in Contexts : ServerPost(c)

Spec == Init /\ [][Next]_vars

\* The same, with localStorage open to edits from outside the program.
NextTamper ==
    \/ Next
    \/ \E u \in Users, blob \in CorruptBlobs : Tamper(u, blob)

SpecTamper == Init /\ [][NextTamper]_vars

\* The ledger calls of the contexts interleaved at their localStorage accesses,
\* while no mirror request is answered.
NextRace ==
    \/ Tick
    \/ \E c \in Contexts, data \in FormInputs : AddLoad(c, data)
    \/ \E c \in Contexts : AddSave(c)
    \/ \E c \in Contexts, id \in TransactionIds : RemoveLoad(c, id)
    \/ \E c \in Contexts : RemoveSave(c)

SpecRace == Init /\ [][NextRace]_vars

\* The summary and the charts applied to the collections a ledger may hold.
InitCharts ==
    /\ InitLedger
    /\ InitDashboardState
    /\ user["tab2"] = 1
    /\ collection \in Collections
    /\ rendered = NotRendered

NextCharts == Render

SpecCharts == InitCharts /\ [][NextCharts]_vars

\* A dashboard mounted on a ledger the user built earlier, its filters and its
\* deletes, and the deletes of the same user's other tab.
LedgerData ==
    { [type |-> "income", amount |-> 100000, description |-> "pay",
       category |-> "Salary", date |-> IsoDate(2024, 1, 15)],
      [type |-> "expense", amount |-> 20000, description |-> "lunch",
       category |-> "Food", date |-> IsoDate(2024, 1, 20)],
      [type |-> "expense", amount |-> 5000, description |-> "power",
       category |-> "Bills", date |-> IsoDate(2024, 2, 1)] }

\* Ledgers as addTransactionToLocal leaves them: newest first, ids in time order.
Ledgers ==
    UNION { { [i \in 1..n |-> JsonOfTransaction(LocalTransaction(1, data[i], n + 1 - i))] :
                data \in [1..n -> LedgerData] } : n \in 0..MaxLedger }

FilterValues ==
    [type |-> {"", "income", "expense"},
     category |-> {"", "Food"},
     fromDate |-> {<<>>, IsoDate(2024, 1, 20)},
     toDate |-> {<<>>, IsoDate(2024, 1, 20)}]

Dashboards == {"tab1"}

InitDashboard ==
    /\ \E ledger \in Ledgers :
          /\ store = [k \in Keys |-> IF k = TxKey(1) THEN JsonStringify(ledger) ELSE AbsentBlob]
          /\ clock = Len(ledger) + 1
    /\ InitIdle
    /\ user["tab2"] = 1
    /\ InitDashboardState
    /\ collection = <<>>
    /\ rendered = NotRendered

NextDashboard ==
    \/ \E c \in Dashboards : Mount(c)
    \/ \E c \in Dashboards, dimension \in DOMAIN FilterValues :
          \E value \in FilterValues[dimension] : SetFilter(c, dimension, value)
    \/ \E c \in Dashboards : handleApplyFilters(c)
    \/ \E c \in Dashboards : handleClearFilters(c)
    \/ \E c \in Contexts, id \in TransactionIds : Remove(c, id)

SpecDashboard == InitDashboard /\ [][NextDashboard]_vars

\* One client context by itself: the dashboard, the transaction form it hosts,
\* the mirror and the server behind it.
NextClient ==
    \/ Tick
    \/ \E c \in Dashboards : Mount(c)
    \/ \E c \in Dashboards, data \in FormInputs : Submit(c, data)
    \/ \E c \in Dashboards : SettleOk(c)
    \/ \E c \in Dashboards : SettleFail(c)
    \/ \E c \in Dashboards : ServerPost(c)
    \/ \E c \in Dashboards, id \in TransactionIds : Remove(c, id)

SpecClient == InitServer /\ [][NextClient]_vars

\* The register route by itself: requests of any clients, their handlers
\* suspended at the await of the lookup.
NextRegister ==
    \/ Tick
    \/ \E r \in Registers, body \in RegisterBodies : RegisterRequest(r, body)
    \/ \E r \in Registers : RegisterResume(r)

\* The transaction routes by themselves: requests of any clients.
NextServer ==
    \/ Tick
    \/ \E userIdParam \in ApiUserIds : ApiGet(userIdParam)
    \/ \E body \in ApiBodies, userIdField \in ApiUserIds : ApiPost(body, userIdField)
    \/ \E idParam \in ApiIds, userIdField \in ApiUserIds : ApiDelete(idParam, userIdField)

SpecRegister == InitServer /\ [][NextRegister]_vars

SpecServer == InitServer /\ [][NextServer]_vars

\* MemStorage under the creates and deletes of both routes' handlers.
NextStore ==
    \/ \E r \in Registers, body \in RegisterBodies : RegisterRequest(r, body)
    \/ \E r \in Registers : RegisterResume(r)
    \/ \E body \in ApiBodies, userIdField \in ApiUserIds : ApiPost(body, userIdField)
    \/ \E idParam \in ApiIds, userIdField \in ApiUserIds : ApiDelete(idParam, userIdField)

SpecStore == InitServer /\ [][NextStore]_vars

\* The session holder under the registrations, sign-ins, logouts and navigation
\* of the contexts that share it.
NextSession ==
    \/ \E r \in Registers, body \in RegisterBodies : RegisterRequest(r, body)
    \/ \E r \in Registers : RegisterResume(r)
    \/ \E c \in Contexts, path \in Paths : Navigate(c, path)
    \/ \E c \in Contexts, u \in StoredUsers : SignIn(c, u)
    \/ \E c \in Contexts : handleLogout(c)

SpecSession == InitServer /\ [][NextSession]_vars

\* The charts applied to collections spread over several months.
InitTrends ==
    /\ InitLedger
    /\ InitDashboardState
    /\ user["tab2"] = 1
    /\ collection \in TrendCollections
    /\ rendered = NotRendered

NextTrends == Render

SpecTrends == InitTrends /\ [][NextTrends]_vars

\* ------------------------------------------------------------ properties
Load(st, userId) == getTransactionsFromLocal(st, userId).items

Ledger(userId) == Load(store, userId)

\* s is t with some elements left out, the others in t's order.
RECURSIVE IsSubsequence(_, _)
IsSubsequence(s, t) ==
    IF s = <<>> THEN TRUE
    ELSE IF t = <<>> THEN FALSE
    ELSE IF Head(s) = Head(t) THEN IsSubsequence(Tail(s), Tail(t))
    ELSE IsSubsequence(s, Tail(t))

Occurrences(seq, x) == Cardinality({ i \in DOMAIN seq : seq[i] = x })

MirrorInFlight(c) == net[c].st \in {"req", "resp"}

\* The step in which the mirror call of c's add fails (the catch logs it).
MirrorFailedStep(c) ==
    /\ MirrorInFlight(c)
    /\ \E w \in warned' \ warned : w.ctx = c /\ w.add = net[c].add

\* C1: when the mirror request of an add fails (the request or its response is lost,
\* or the reply is not 2xx), the add still completes successfully: the step leaves
\* every ledger as it was (no rollback, the transaction stays) and the mutation
\* reports success to its caller.
C1_MirrorFailureKeepsAdd ==
    [][\A c \in Contexts :
         MirrorFailedStep(c) => /\ store' = store
                                /\ lastResult'[c] = "success"
                                /\ pc'[c] = "idle"]_vars

C1_Witness ==
    \E w \in warned :
        /\ w.add = adds
        /\ lastResult[w.ctx] = "success"
        /\ pc[w.ctx] = "idle"
        /\ \E i \in DOMAIN Ledger(user[w.ctx]) : Ledger(user[w.ctx])[i].userId = user[w.ctx]

\* C2: add(userId, t) followed by load(userId) returns t as the first element,
\* followed by the previously stored transactions in their previous order.
C2_AddThenLoadReturnsT ==
    [][\A c \in Contexts, data \in FormInputs :
         Submit(c, data) =>
            Load(store', user[c])
              = <<LocalTransaction(user[c], data, clock)>> \o Load(store, user[c])]_vars

C4_LoadAlwaysASequence ==
    /\ \A u \in Users :
          /\ IsArray(getTransactionsFromLocal(store, u))
          /\ store[TxKey(u)].kind /= "array" => Load(store, u) = <<>>
    /\ \A c \in Contexts : lastResult[c] \notin {"error", "threw"}

\* The step in which c's ledger call writes its copy back.
SaveStep(c) ==
    \/ pc[c] = "addLoaded" /\ pc'[c] = "awaiting"
    \/ rm[c] /\ ~rm'[c]

\* C5: add and remove are load -> mutate -> save sequences that are not atomic: when
\* two callers for the same user have both loaded before either saves, the
\* collection persisted ends as the one the last save writes, and the update of the
\* other caller is lost (a transaction it added, unless the last saver's copy holds
\* an equal one, is absent; one it removed is back).
C5_LastSaveWins ==
    [][\A c \in Contexts :
         (SaveStep(c) /\ missed[c] /= {}) =>
            /\ store'[TxKey(user[c])].kind = "array"
            /\ Load(store', user[c]) = JsonStringify(frame[c].transactions).items
            /\ \A w \in missed[c] :
                 /\ (w.kind = "add"
                        /\ Occurrences(JsonStringify(frame[c].transactions).items, w.tx) = 0)
                      => Occurrences(Load(store', user[c]), w.tx) = 0
                 /\ w.kind = "remove"
                      => \A i \in DOMAIN frame[c].transactions :
                            frame[c].transactions[i].id = w.id
                              => Occurrences(Load(store', user[c]),
                                             JsonOfTransaction(frame[c].transactions[i])) > 0]_vars

C5_Witness ==
    \E c \in Contexts :
        /\ pc[c] = "awaiting"
        /\ \E w \in missed[c] :
              /\ w.kind = "add"
              /\ w.id /= Ledger(user[c])[1].id
              /\ Occurrences(Ledger(user[c]), w.tx) = 0
        /\ \A d \in Contexts : pc[d] = "awaiting" /\ user[d] = user[c]
        /\ Len(Ledger(user[c])) = 1

\* C6: the local write is committed before the mirror request is issued and the
\* mirror's completion does not gate the local write path: while the mirror call of
\* a context's add is in flight the transaction form accepts a further add.
C6_MirrorNeverGatesWrites ==
    \A c \in Contexts : MirrorInFlight(c) => SubmitEnabled(c)

\* C7 as stated: each add issues at most one create request and, if that request
\* fails, the remote store never comes to contain that transaction.
C7_FailedAddNeverStored ==
    /\ requests <= adds
    /\ \A w \in warned : \A i \in DOMAIN origins : origins[i] /= w.add

\* C7 amended: each add issues at most one create request and nothing re-sends it:
\* the server stores at most one transaction per add, and none for an add whose
\* request failed before the server handled it.
C7_NoResend ==
    /\ requests <= adds
    /\ \A k \in 1..adds : Cardinality({ i \in DOMAIN origins : origins[i] = k }) <= 1
    /\ \A w \in warned : ~w.handled => \A i \in DOMAIN origins : origins[i] /= w.add

C7_Witness ==
    \E w \in warned :
        /\ ~w.handled
        /\ pc[w.ctx] = "idle"
        /\ w.add < adds
        /\ \E i \in DOMAIN origins : origins[i] > w.add

\* C8: for distinct users A and B, every save, add and remove for A leaves B's
\* persisted collection unchanged, and load(A) never returns a transaction added
\* under B.
C8_UsersIsolated ==
    /\ \A a \in Users : \A b \in Users \ {a} :
          /\ \A id \in TransactionIds :
                removeTransactionFromLocal(store, a, id)[TxKey(b)] = store[TxKey(b)]
          /\ \A data \in FormInputs :
                addTransactionToLocal(store, a, LocalTransaction(a, data, clock))[TxKey(b)]
                  = store[TxKey(b)]
          /\ saveTransactionsToLocal(store, a, <<>>)[TxKey(b)] = store[TxKey(b)]
          /\ saveTransactionsToLocal(store, a, Load(store, b))[TxKey(b)] = store[TxKey(b)]
    /\ \A u \in Users : \A i \in DOMAIN Ledger(u) : Ledger(u)[i].userId = u

C8_Witness ==
    /\ Cardinality({ user[c] : c \in Contexts }) = 2
    /\ \A u \in Users : Len(Ledger(u)) = 1
    /\ \E c \in Contexts : lastResult[c] = "deleted"

\* The sum of the amounts, as the decimal numbers they are, in cents.
RECURSIVE SumOfCents(_)
SumOfCents(ts) == IF ts = <<>> THEN 0 ELSE Head(ts).amount.dec + SumOfCents(Tail(ts))

\* C9: for every transaction collection the summary's income total is the sum
\* of the amounts of the income transactions, its expense total the sum of the
\* amounts of the expense transactions, and its balance the income total minus
\* the expense total; for the empty collection all three are zero.
C9_SummaryTotals ==
    rendered.done =>
        LET income == SumOfCents(SelectSeq(collection, IsIncome))
            expenses == SumOfCents(SelectSeq(collection, IsExpense))
        IN  /\ rendered.financialSummary.income = DoubleOfCents(income)
            /\ rendered.financialSummary.expenses = DoubleOfCents(expenses)
            /\ rendered.financialSummary.balance = DoubleOfCents(income - expenses)
            /\ rendered.incomeExpense[1].value = DoubleOfCents(income)
            /\ rendered.incomeExpense[2].value = DoubleOfCents(expenses)
            /\ collection = <<>> =>
                   /\ rendered.financialSummary.income = PlusZero
                   /\ rendered.financialSummary.expenses = PlusZero
                   /\ rendered.financialSummary.balance = PlusZero

\* The totals of the emitted entries added up as numbers, in the order emitted.
RECURSIVE SumOfTotals(_, _)
SumOfTotals(sum, entries) ==
    IF entries = <<>> THEN sum
    ELSE SumOfTotals(NumberAdd(sum, Head(entries).amount), Tail(entries))

\* C10: for every transaction collection, the totals of the category
\* breakdown, summed over the categories it emits, equal the plain expense
\* total of the collection, in the chart and in the top spending list.
C10_BreakdownSumsToExpenseTotal ==
    rendered.done =>
        /\ SumOfTotals(PlusZero, rendered.expenseCategory) = rendered.financialSummary.expenses
        /\ SumOfTotals(PlusZero, rendered.topSpending) = rendered.financialSummary.expenses

\* C11: for every transaction collection, the monthly trend's income sums
\* added across all months equal the overall income total, and its expense
\* sums added across all months equal the overall expense total.
C11_MonthlySumsToTotals ==
    rendered.done =>
        LET trend == rendered.monthlyTrends
        IN  /\ SumOfTotals(PlusZero, [i \in DOMAIN trend |-> [amount |-> trend[i].income]])
                  = rendered.financialSummary.income
            /\ SumOfTotals(PlusZero, [i \in DOMAIN trend |-> [amount |-> trend[i].expenses]])
                  = rendered.financialSummary.expenses

\* The year-months (first 7 characters of the date) occurring in the collection.
YearMonthsOf(ts) == { Substring(ts[i].date, 0, 7) : i \in DOMAIN ts }

\* C12: the monthly trend emits exactly one entry per distinct year-month
\* occurring in the collection, in strictly ascending year-month order whatever
\* the order of the input: its i-th entry is the one of the i-th year-month.
C12_OneEntryPerMonthAscending ==
    rendered.done =>
        LET trend == rendered.monthlyTrends
            months == YearMonthsOf(collection)
        IN  /\ Len(trend) = Cardinality(months)
            /\ \A k \in months :
                   trend[Cardinality({ j \in months : StringLess(j, k) }) + 1].month
                       = YearMonth(k)

\* Where the collection first has an expense of the category.
FirstEncounter(ts, category) ==
    CHOOSE i \in DOMAIN ts :
        /\ IsExpense(ts[i]) /\ ts[i].category = category
        /\ \A j \in 1..(i - 1) : ~(IsExpense(ts[j]) /\ ts[j].category = category)

\* C13: the top spending list holds only expense categories, each once and with
\* its per-category total, in descending order of total, at most 5 of them (the
\* largest), and categories with equal totals in the order in which the
\* collection first has them.
C13_TopSpendingOrder ==
    rendered.done =>
        LET top == rendered.topSpending
            all == rendered.expenseCategory
            listed == { top[i].category : i \in DOMAIN top }
        IN  /\ \A i \in DOMAIN top :
                   /\ \E k \in DOMAIN collection :
                          IsExpense(collection[k]) /\ collection[k].category = top[i].category
                   /\ \E k \in DOMAIN all : all[k] = top[i]
            /\ Cardinality(listed) = Len(top)
            /\ Len(top) = (IF Len(all) < TopK THEN Len(all) ELSE TopK)
            /\ \A i \in DOMAIN top : \A j \in DOMAIN top :
                   i < j =>
                       /\ ~NumberLess(top[i].amount, top[j].amount)
                       /\ top[i].amount = top[j].amount =>
                              FirstEncounter(collection, top[i].category)
                                  < FirstEncounter(collection, top[j].category)
            /\ \A k \in DOMAIN all : \A i \in DOMAIN top :
                   all[k].category \notin listed =>
                       /\ ~NumberLess(top[i].amount, all[k].amount)
                       /\ top[i].amount = all[k].amount =>
                              FirstEncounter(collection, top[i].category)
                                  < FirstEncounter(collection, all[k].category)

\* A list cut to 5 that the sort had to reorder, with equal totals inside it and
\* an equal total cut off.
C13_Witness ==
    /\ rendered.done
    /\ Len(rendered.expenseCategory) > TopK
    /\ rendered.topSpending /= SubSeq(rendered.expenseCategory, 1, TopK)
    /\ \E i \in DOMAIN rendered.topSpending : \E j \in DOMAIN rendered.topSpending :
           i < j /\ rendered.topSpending[i].amount = rendered.topSpending[j].amount
    /\ \E k \in DOMAIN rendered.expenseCategory :
           /\ \A i \in DOMAIN rendered.topSpending :
                  rendered.topSpending[i].category /= rendered.expenseCategory[k].category
           /\ rendered.expenseCategory[k].amount = rendered.topSpending[TopK].amount

\* The calendar day a YYYY-MM-DD string names, as numbers.
DayOf(date) ==
    [year |-> DecimalValue(Substring(date, 0, 4)),
     month |-> DecimalValue(Substring(date, 5, 7)),
     day |-> DecimalValue(Substring(date, 8, 10))]

\* Day a is not after day b.
NotAfter(a, b) ==
    LET x == DayOf(a)
        y == DayOf(b)
    IN  \/ x.year < y.year
        \/ x.year = y.year /\ x.month < y.month
        \/ x.year = y.year /\ x.month = y.month /\ x.day <= y.day

\* The transaction satisfies every non-empty dimension of the filter set.
Satisfies(t, f) ==
    /\ f.type = "" \/ t.type = f.type
    /\ f.category = "" \/ t.category = f.category
    /\ f.fromDate = <<>> \/ NotAfter(f.fromDate, t.date)
    /\ f.toDate = <<>> \/ NotAfter(t.date, f.toDate)

\* C14: applying a filter set yields exactly the transactions of the loaded
\* collection, in their original order, that satisfy every non-empty dimension
\* (type and category equal, fromDate <= date <= toDate, bounds included).
C14_FilterYieldsMatches ==
    [][\A c \in Contexts :
          handleApplyFilters(c) =>
              filteredTransactions'[c]
                  = SelectSeq(dashboardTransactions[c], LAMBDA t : Satisfies(t, filters[c]))]_vars

\* Filters with a date bound that is a transaction's own date, applied: the view
\* keeps that transaction and leaves another out.
C14_Witness ==
    \E c \in Contexts :
        /\ lastResult[c] = "Filters Applied"
        /\ filters[c].fromDate /= <<>>
        /\ filters[c].type /= ""
        /\ filteredTransactions[c] = FilterTransactions(dashboardTransactions[c], filters[c])
        /\ Len(filteredTransactions[c]) < Len(dashboardTransactions[c])
        /\ \E i \in DOMAIN filteredTransactions[c] :
               filteredTransactions[c][i].date = filters[c].fromDate

\* C15: clearing the filters makes the filtered view the current in-memory
\* collection, same elements in the same order, and empties every filter
\* dimension; the ledger store is not read (nor written).
C15_ClearRestoresCollection ==
    [][\A c \in Contexts :
          handleClearFilters(c) =>
              /\ filteredTransactions'[c] = dashboardTransactions[c]
              /\ dashboardTransactions'[c] = dashboardTransactions[c]
              /\ filters'[c] = NoFilters
              /\ store' = store]_vars

\* A view cleared while the store no longer holds what the dashboard holds.
C15_Witness ==
    \E c \in Contexts :
        /\ lastResult[c] = "Filters Cleared"
        /\ filters[c] = NoFilters
        /\ dashboardTransactions[c] /= <<>>
        /\ filteredTransactions[c] = dashboardTransactions[c]
        /\ Load(store, user[c]) /= dashboardTransactions[c]

\* C16: filtering is idempotent: applying the filter set to the result of
\* applying it once yields the result of applying it once.
C16_FilterIdempotent ==
    \A c \in Contexts :
        LET once == FilterTransactions(dashboardTransactions[c], filters[c])
        IN  FilterTransactions(once, filters[c]) = once

\* A filter set applied that keeps some transactions and leaves some out.
C16_Witness ==
    \E c \in Contexts :
        /\ lastResult[c] = "Filters Applied"
        /\ filteredTransactions[c] = FilterTransactions(dashboardTransactions[c], filters[c])
        /\ filteredTransactions[c] /= <<>>
        /\ filteredTransactions[c] /= dashboardTransactions[c]

\* C17: whatever register requests were handled, overlapping or not, no two
\* stored users have the same email.
C17_EmailsUnique ==
    \A i, j \in DOMAIN srvUsers :
        i /= j => srvUsers[i].email /= srvUsers[j].email

\* The stored transaction with this id belongs to the user the request names.
OwnedBy(idParam, userIdField) ==
    \E i \in DOMAIN srvTx :
        /\ idParam.tag = "number" /\ srvTx[i].id = idParam.n
        /\ userIdField.tag = "number" /\ srvTx[i].userId = userIdField.n

\* The store without the transaction of this id.
WithoutId(idParam) == SelectSeq(srvTx, LAMBDA t : t.id /= idParam.n)

Reverse(seq) == [i \in 1..Len(seq) |-> seq[Len(seq) + 1 - i]]

\* C19: the GET answers exactly the stored transactions of the user, those
\* created later before those created earlier, also among transactions created
\* at the same time.
C19_NewestCreatedFirst ==
    [][\A userIdParam \in ApiUserIds :
          ApiGet(userIdParam) =>
              reply'.body =
                  Reverse(JsonStringify(
                      SelectSeq(srvTx, LAMBDA t : Number(t.userId) = userIdParam)).items)]_vars

\* The body or the userId is one the route has to reject.
Rejected(body, userIdField) ==
    \/ \E field \in {"type", "amount", "description", "category", "date"} :
          field \notin DOMAIN body
    \/ "amount" \in DOMAIN body /\ body.amount <= 0
    \/ "type" \in DOMAIN body /\ body.type \notin {"income", "expense"}
    \/ userIdField = Undefined

\* C20: a POST with a non-positive amount, a kind outside the enum, a missing
\* required field or no userId is answered 400, stores nothing and consumes no id.
C20_InvalidPostRejected ==
    [][\A body \in ApiBodies, userIdField \in ApiUserIds :
          ApiPost(body, userIdField) /\ Rejected(body, userIdField) =>
              /\ reply'.status = 400
              /\ srvTx' = srvTx
              /\ currentTransactionId' = currentTransactionId
              /\ srvUsers' = srvUsers]_vars

\* A POST was answered 400 with a transaction stored before it, and the next id
\* is the one after the stored transaction's.
C20_Witness ==
    /\ reply.op = "post"
    /\ reply.status = 400
    /\ Len(srvTx) = 1
    /\ currentTransactionId = srvTx[1].id + 1

\* C21: getCurrentUser returns the user given to the latest setCurrentUser not
\* followed by clearCurrentUser, null otherwise, and isAuthenticated is true
\* exactly when it is not null.
C21_SessionHoldsLastUser ==
    /\ getCurrentUser(session) = given
    /\ isAuthenticated(session) <=> given /= Null

\* A logout in one context after a sign-in: nobody is authenticated, and the
\* router took the context to the auth page.
C21_Witness ==
    /\ given = Null
    /\ ~isAuthenticated(session)
    /\ \E c \in Contexts : location[c] = "/auth"
    /\ \E c \in Contexts : location[c] = "/dashboard"

\* No two positions of the sequence hold the same value.
Distinct(seq) == \A i, j \in DOMAIN seq : i /= j => seq[i] /= seq[j]

\* C22: in the server store no two users share an id, no two transactions share
\* an id, and no id is assigned twice, so the id of a deleted transaction is
\* never assigned again.
C22_ServerIdsUnique ==
    /\ Distinct([i \in DOMAIN srvUsers |-> srvUsers[i].id])
    /\ Distinct([i \in DOMAIN srvTx |-> srvTx[i].id])
    /\ Distinct(assigned)
    /\ \A i \in DOMAIN srvTx : \E k \in DOMAIN assigned : assigned[k] = srvTx[i].id

\* Two users are stored, and a transaction was created after another one was
\* deleted.
C22_Witness ==
    /\ Len(srvUsers) = 2
    /\ Len(assigned) = 2
    /\ Len(srvTx) = 1
    /\ srvTx[1].id = assigned[2]

\* C23: in a single client context, whenever no add is in progress the
\* dashboard's in-memory collection equals the ledger loaded for the user, same
\* elements in the same order.
C23_DashboardEqualsLedger ==
    \A c \in Dashboards :
        pc[c] = "idle" => dashboardTransactions[c] = Ledger(user[c])

\* C24: the transactions of a user's local ledger have pairwise distinct ids,
\* whatever adds were made, two within one millisecond included.
C24_LocalIdsUnique ==
    \A u \in Users : Distinct([i \in DOMAIN Ledger(u) |-> Ledger(u)[i].id])

\* C25: after every step of the dashboard (load, apply, clear, delete) the
\* filtered view is a subsequence of the in-memory collection, and a delete leaves
\* no transaction of the deleted id in the filtered view.
C25_FilteredIsSubsequence ==
    [][\A c \in Contexts :
          /\ IsSubsequence(filteredTransactions'[c], dashboardTransactions'[c])
          /\ \A id \in TransactionIds :
                Remove(c, id) =>
                    \A i \in DOMAIN filteredTransactions'[c] :
                        filteredTransactions'[c][i].id /= id]_vars

\* A delete made with a filter set in force: the collection still holds a
\* transaction and the view, filtered again, shows none.
C25_Witness ==
    \E c \in Contexts :
        /\ lastResult[c] = "deleted"
        /\ filters[c] /= NoFilters
        /\ dashboardTransactions[c] /= <<>>
        /\ filteredTransactions[c] = <<>>

\* C26: a delete in the client sends no request and leaves the server's store
\* as it is.
C26_DeleteLeavesRemote ==
    [][\A c \in Contexts, id \in TransactionIds :
          Remove(c, id) =>
              /\ net' = net
              /\ requests' = requests
              /\ srvTx' = srvTx
              /\ currentTransactionId' = currentTransactionId]_vars

\* A transaction mirrored when it was added is still in the server's store after
\* its removal from the local ledger.
C26_Witness ==
    \E c \in Contexts :
        /\ lastResult[c] = "deleted"
        /\ Ledger(user[c]) = <<>>
        /\ \E i \in DOMAIN srvTx : srvTx[i].userId = user[c]

====
